---- MODULE Spec2Model ----
(***************************************************************************)
(* daLUKE NER example construction (daluke/ner/data.py): the IOB           *)
(* segmenter, the sentence splitter, the span enumerator and the padded    *)
(* Words/Entities layout, modelled statement by statement.                 *)
(*                                                                         *)
(* Python indices are kept 0-based in every value of the model (spans are  *)
(* half-open (start, end) pairs as in the code); At(s, i) reads s[i].      *)
(* A tag string "B-PER" is carried as the list of its "-"-separated        *)
(* fields <<"B", "PER">>, the null tag "O" as <<"O">>.  An Optional is a   *)
(* set: {} is None, {v} is the value v.                                    *)
(***************************************************************************)
EXTENDS Integers, Sequences, FiniteSets, TLC

VARIABLES
    annotation,      \* list[str]: the IOB tags of the text
    text_token_ids,  \* list[list[int]]: the sub-token ids of each word
    cfg,             \* max_seq_length, max_entities, max_entity_span
    seg,             \* the scan of _segment_entities
    split,           \* the loop of _add_extra_sentence_boundaries
    ex               \* the loop of _build_examples over one text

vars == <<annotation, text_token_ids, cfg, seg, split, ex>>

---------------------------------------------------------------------------
\* Bounds of the model.

\* Longest text (in words) the segmenter specification scans.
MaxWords == 4

\* Longest text (in words) the splitter specification splits.
MaxSplitWords == 4

\* Most sub-tokens the tokenizer gives one word.
MaxSubTokens == 5

\* Largest max_seq_length the splitter specification is configured with.
MaxSeqLength == 6

\* Longest text (in words) the example builder is run on, and the most
\* sub-tokens one of its words has.
MaxExWords == 3
MaxExSubTokens == 2

---------------------------------------------------------------------------
\* Python helpers.

At(s, i) == s[i + 1]

\* s[a:b] for 0 <= a, b (Python clips b to len(s)).
Slice(s, a, b) ==
    LET hi == IF b < Len(s) THEN b ELSE Len(s)
    IN  IF a >= hi THEN <<>> ELSE [k \in 1..(hi - a) |-> s[a + k]]

\* The value of a non-None Optional.
Val(opt) == CHOOSE v \in opt : TRUE

\* All sequences over S of length 0..n.
SeqsUpTo(S, n) == UNION {[1..k -> S] : k \in 0..n}

---------------------------------------------------------------------------
\* DaNE labels (data.py:251-253).

null_label == <<"O">>

labels == <<"LOC", "PER", "ORG", "MISC">>

\* The entity types the model draws tags from: two of DaNE's four, enough for
\* every comparison of the scan (same type / another type).
Types == {"LOC", "PER"}

Tags == {null_label} \cup {<<p, t>> : p \in {"B", "I"}, t \in Types}

---------------------------------------------------------------------------
\* _segment_entities (data.py:170-197).

\* spans[key] = typ on a dict kept in insertion order.
DictSet(d, key, typ) ==
    IF \E k \in 1..Len(d) : d[k].key = key
    THEN [k \in 1..Len(d) |-> IF d[k].key = key THEN [key |-> key, typ |-> typ] ELSE d[k]]
    ELSE Append(d, [key |-> key, typ |-> typ])

\* dict.items() as a set.
DictItems(d) == {d[k] : k \in 1..Len(d)}

\* MightEnd without its "followed by explicit start" case.
MightEnd_NoExplicitStart(ann, i, typ) ==
    \/ i + 1 = Len(ann)
    \/ At(ann, i + 1) = null_label
    \/ At(ann, i + 1)[2] # typ

\* MightEnd without its "followed by another annotation type" case.
MightEnd_NoTypeChange(ann, i, typ) ==
    \/ i + 1 = Len(ann)
    \/ At(ann, i + 1) = null_label
    \/ At(ann, i + 1)[1] = "B"

\* data.py:184-185: the word at i might end an entity.
MightEnd(ann, i, typ) ==
    \/ i + 1 = Len(ann)
    \/ At(ann, i + 1) = null_label
    \/ At(ann, i + 1)[1] = "B"
    \/ At(ann, i + 1)[2] # typ

\* MightBegin without its "explicitly marked" case.
MightBegin_NoExplicitMark(ann, i, tag, typ) ==
    \/ i = 0
    \/ At(ann, i - 1) = null_label
    \/ At(ann, i - 1)[2] # typ

\* data.py:192-193: the word at i might begin an entity.
MightBegin(ann, i, tag, typ) ==
    \/ tag = "B"
    \/ i = 0
    \/ At(ann, i - 1) = null_label
    \/ At(ann, i - 1)[2] # typ

\* data.py:174-176: the locals before the loop.
SegInit == [i |-> 0, start |-> {}, ent_type |-> {}, spans |-> <<>>, pc |-> "scan"]

\* One iteration of the for loop at data.py:177-196 on word st.i.
SegStep(ann, st) ==
    LET i == st.i
        a == At(ann, i)
    IN  IF a = null_label
        THEN IF st.start # {}
             THEN [st EXCEPT !.pc = "assert_O"]
             ELSE [st EXCEPT !.i = i + 1]
        ELSE LET tag == a[1]
                 typ == a[2]
             IN  IF MightEnd(ann, i, typ)
                 THEN IF ~(st.ent_type = {} \/ st.ent_type = {typ})
                      THEN [st EXCEPT !.pc = "assert_type"]
                      ELSE [st EXCEPT
                              !.spans = DictSet(@, <<IF st.start = {} THEN i ELSE Val(st.start), i + 1>>, typ),
                              !.start = {},
                              !.ent_type = {},
                              !.i = i + 1]
                 ELSE IF MightBegin(ann, i, tag, typ)
                      THEN IF st.start # {}
                           THEN [st EXCEPT !.pc = "assert_start"]
                           ELSE [st EXCEPT !.start = {i}, !.ent_type = {typ}, !.i = i + 1]
                      ELSE [st EXCEPT !.i = i + 1]

\* data.py:197: the loop is over, spans is returned.
SegReturn(st) == [st EXCEPT !.pc = "return"]

\* The whole call: the scan run to its return or to a failed assertion.
RECURSIVE SegRun(_, _)
SegRun(ann, st) ==
    IF st.pc # "scan" THEN st
    ELSE IF st.i = Len(ann) THEN SegReturn(st)
    ELSE SegRun(ann, SegStep(ann, st))

segment_entities(ann) == SegRun(ann, SegInit)

---------------------------------------------------------------------------
\* The segmenter on its own: every tag sequence of up to MaxWords words.

IdleCfg == [max_seq_length |-> 0, max_entities |-> 0, max_entity_span |-> 0]
IdleSplit == [bounds0 |-> <<>>, bounds |-> <<>>, pc |-> "idle"]
IdleEx == [pc |-> "idle"]

InitSegment ==
    /\ annotation \in SeqsUpTo(Tags, MaxWords)
    /\ text_token_ids = <<>>
    /\ cfg = IdleCfg
    /\ seg = SegInit
    /\ split = IdleSplit
    /\ ex = IdleEx

SegmentScan ==
    /\ seg.pc = "scan"
    /\ seg.i < Len(annotation)
    /\ seg' = SegStep(annotation, seg)
    /\ UNCHANGED <<annotation, text_token_ids, cfg, split, ex>>

SegmentReturn ==
    /\ seg.pc = "scan"
    /\ seg.i = Len(annotation)
    /\ seg' = SegReturn(seg)
    /\ UNCHANGED <<annotation, text_token_ids, cfg, split, ex>>

NextSegment == SegmentScan \/ SegmentReturn

SpecSegment == InitSegment /\ [][NextSegment]_vars

---------------------------------------------------------------------------
\* Claims about the segmenter.

\* Every set of non-overlapping typed word spans inside [k, n): each span is
\* a dict item [key |-> <<start, end>>, typ |-> type].
RECURSIVE SpanSetsFrom(_, _)
SpanSetsFrom(k, n) ==
    IF k >= n THEN {{}}
    ELSE SpanSetsFrom(k + 1, n) \cup
         UNION {{{[key |-> <<k, e>>, typ |-> t]} \cup R : R \in SpanSetsFrom(e, n)} :
                   e \in (k + 1)..n, t \in Types}

\* The IOB2 encoding of a span set over n words: B-TYPE on the first word of
\* a span, I-TYPE on its other words, O elsewhere.
IOBEncode(S, n) ==
    [w \in 1..n |->
        IF \E sp \in S : sp.key[1] = w - 1
        THEN <<"B", (CHOOSE sp \in S : sp.key[1] = w - 1).typ>>
        ELSE IF \E sp \in S : sp.key[1] < w - 1 /\ w - 1 < sp.key[2]
        THEN <<"I", (CHOOSE sp \in S : sp.key[1] < w - 1 /\ w - 1 < sp.key[2]).typ>>
        ELSE null_label]

\* C3: IOB round-trip.  Whenever the scanned annotation is the IOB2 encoding
\* of a set S of non-overlapping typed word spans (adjacent spans of one type
\* included), the scan fails no assertion and returns exactly S as its
\* (start, end) -> type mapping, with half-open word indices.
C3_IOBRoundTrip ==
    seg.pc # "scan" =>
        \A S \in SpanSetsFrom(0, Len(annotation)) :
            annotation = IOBEncode(S, Len(annotation)) =>
                /\ seg.pc = "return"
                /\ DictItems(seg.spans) = S
                /\ Len(seg.spans) = Cardinality(S)

\* C3's case: [O, B-PER, I-PER, O] has been decoded to {(1,3): PER}.
C3_Witness ==
    /\ annotation = <<null_label, <<"B", "PER">>, <<"I", "PER">>, null_label>>
    /\ annotation = IOBEncode({[key |-> <<1, 3>>, typ |-> "PER"]}, 4)
    /\ seg.pc = "return"
    /\ seg.spans = <<[key |-> <<1, 3>>, typ |-> "PER"]>>

\* Word w lies in the span with key <<start, end>>.
Covers(key, w) == key[1] <= w /\ w < key[2]

\* C8: on every tag sequence on which the scan returns, the returned spans
\* are half-open word ranges with 0 <= start < end <= len(annotation), are
\* pairwise non-overlapping, were inserted in strictly increasing start
\* order, and a word is covered by a span exactly when its tag is not null.
C8_SpansPartitionEntityWords ==
    seg.pc = "return" =>
        LET d == seg.spans
            n == Len(annotation)
        IN  /\ \A k \in 1..Len(d) :
                   0 <= d[k].key[1] /\ d[k].key[1] < d[k].key[2] /\ d[k].key[2] <= n
            /\ \A j, k \in 1..Len(d) :
                   j # k => (d[j].key[2] <= d[k].key[1] \/ d[k].key[2] <= d[j].key[1])
            /\ \A k \in 1..(Len(d) - 1) : d[k].key[1] < d[k + 1].key[1]
            /\ \A w \in 0..(n - 1) :
                   (\E k \in 1..Len(d) : Covers(d[k].key, w)) <=> (At(annotation, w) # null_label)

\* C8's case: a sequence that is no IOB2 encoding (it starts with an I- tag)
\* has been scanned to its return and gave several spans, one of them of
\* several words.
C8_Witness ==
    /\ seg.pc = "return"
    /\ Len(annotation) > 0
    /\ At(annotation, 0)[1] = "I"
    /\ Len(seg.spans) >= 2
    /\ \E k \in 1..Len(seg.spans) : seg.spans[k].key[2] - seg.spans[k].key[1] >= 2

---------------------------------------------------------------------------
\* _add_extra_sentence_boundaries (data.py:199-215).

\* [len(tokens) for tokens in ...]
Lens(tok) == [k \in 1..Len(tok) |-> Len(tok[k])]

RECURSIVE SumTo(_, _)
SumTo(s, k) == IF k = 0 THEN 0 ELSE SumTo(s, k - 1) + s[k]

\* np.cumsum
cumsum(s) == [k \in 1..Len(s) |-> SumTo(s, k)]

\* list.insert(i, x) for 0 <= i <= len.
Insert(s, i, x) == [k \in 1..(Len(s) + 1) |-> IF k <= i THEN s[k] ELSE IF k = i + 1 THEN x ELSE s[k - 1]]

\* The test of data.py:207 without the two special tokens.
NeedsSplit_NoSpecialTokens(sentence_cumlength, max_seq_length) ==
    sentence_cumlength[Len(sentence_cumlength)] > max_seq_length

\* data.py:207: the sentence is too long once start and end tokens are added.
NeedsSplit(sentence_cumlength, max_seq_length) ==
    sentence_cumlength[Len(sentence_cumlength)] + 2 > max_seq_length

\* data.py:209 counting the words that reach the limit exactly as well.
SplitCandidate_NonStrict(sentence_cumlength, max_seq_length) ==
    Cardinality({k \in 1..Len(sentence_cumlength) : sentence_cumlength[k] + 2 <= max_seq_length})

\* data.py:209: (sentence_cumlength + 2 < max_seq_length).sum()
SplitCandidate(sentence_cumlength, max_seq_length) ==
    Cardinality({k \in 1..Len(sentence_cumlength) : sentence_cumlength[k] + 2 < max_seq_length})

\* data.py:205: bounds[i-1] if i else 0
SentStart(b, i) == IF i # 0 THEN At(b, i - 1) ELSE 0

\* The for loop of data.py:203-214 leaving the while loop right after an
\* insertion, without scanning the new bounds again.
RECURSIVE SplitScanFrom_NoRescan(_, _, _, _)
SplitScanFrom_NoRescan(st, tok, max_seq_length, i) ==
    IF i = Len(st.bounds) THEN [st EXCEPT !.pc = "return"]
    ELSE LET sent_start == SentStart(st.bounds, i)
             bound == At(st.bounds, i)
             sentence_cumlength == cumsum(Lens(Slice(tok, sent_start, bound)))
         IN  IF sentence_cumlength = <<>> THEN [st EXCEPT !.pc = "IndexError"]
             ELSE IF NeedsSplit(sentence_cumlength, max_seq_length)
             THEN [st EXCEPT !.pc = "return",
                             !.bounds = Insert(@, i, sent_start + SplitCandidate(sentence_cumlength, max_seq_length))]
             ELSE SplitScanFrom_NoRescan(st, tok, max_seq_length, i + 1)

\* One run of the for loop of data.py:203-214 from index i: it ends at the
\* first sentence it splits (break: the while loop scans again), at an empty
\* sentence (sentence_cumlength[-1] raises IndexError), or after the last
\* bound (for-else: might_need_split = False, the bounds are returned).
RECURSIVE SplitScanFrom(_, _, _, _)
SplitScanFrom(st, tok, max_seq_length, i) ==
    IF i = Len(st.bounds) THEN [st EXCEPT !.pc = "return"]
    ELSE LET sent_start == SentStart(st.bounds, i)
             bound == At(st.bounds, i)
             sentence_cumlength == cumsum(Lens(Slice(tok, sent_start, bound)))
         IN  IF sentence_cumlength = <<>> THEN [st EXCEPT !.pc = "IndexError"]
             ELSE IF NeedsSplit(sentence_cumlength, max_seq_length)
             THEN [st EXCEPT !.bounds = Insert(@, i, sent_start + SplitCandidate(sentence_cumlength, max_seq_length))]
             ELSE SplitScanFrom(st, tok, max_seq_length, i + 1)

\* data.py:201: the call starts with might_need_split = True; bounds0 keeps
\* the list as it was passed in (the code changes it in place).
SplitInit(b) == [bounds0 |-> b, bounds |-> b, pc |-> "scan"]

\* The whole call: scans until the bounds are returned or IndexError is raised.
RECURSIVE SplitRun(_, _, _)
SplitRun(st, tok, max_seq_length) ==
    IF st.pc # "scan" THEN st
    ELSE SplitRun(SplitScanFrom(st, tok, max_seq_length, 0), tok, max_seq_length)

add_extra_sentence_boundaries(b, tok, max_seq_length) == SplitRun(SplitInit(b), tok, max_seq_length)

---------------------------------------------------------------------------
\* The splitter on its own: every text of up to MaxSplitWords words of up to
\* MaxSubTokens sub-tokens each, every list of sentence bounds over it.

\* The tokenizer's output for words of the given sub-token counts: the k-th
\* sub-token of word w gets the id 10*w + k, so every id of a text is distinct.
TokenIds(counts) == [w \in 1..Len(counts) |-> [k \in 1..counts[w] |-> 10 * w + k]]

\* The texts of 1..n words of 1..m sub-tokens each.
Texts(n, m) == {TokenIds(c) : c \in UNION {[1..l -> 1..m] : l \in 1..n}}

\* The strictly increasing lists of sentence ends over n words, the last at n.
RECURSIVE SortedSeq(_)
SortedSeq(S) ==
    IF S = {} THEN <<>>
    ELSE LET m == CHOOSE x \in S : \A y \in S : x <= y
         IN  <<m>> \o SortedSeq(S \ {m})

SentBounds(n) == {SortedSeq(B \cup {n}) : B \in SUBSET (1..(n - 1))}

InitSplit ==
    /\ annotation = <<>>
    /\ text_token_ids \in Texts(MaxSplitWords, MaxSubTokens)
    /\ \E m \in 1..MaxSeqLength : cfg = [IdleCfg EXCEPT !.max_seq_length = m]
    /\ seg = SegInit
    /\ \E b \in SentBounds(Len(text_token_ids)) : split = SplitInit(b)
    /\ ex = IdleEx

\* One iteration of the while loop of data.py:202.
SplitScan ==
    /\ split.pc = "scan"
    /\ split' = SplitScanFrom(split, text_token_ids, cfg.max_seq_length, 0)
    /\ UNCHANGED <<annotation, text_token_ids, cfg, seg, ex>>

NextSplit == SplitScan

SpecSplit == InitSplit /\ [][NextSplit]_vars

---------------------------------------------------------------------------
\* Claims about the splitter.

\* The number of sub-tokens of the words [a, b) of the text.
SubTokens(tok, a, b) == LET l == Lens(Slice(tok, a, b)) IN SumTo(l, Len(l))

\* C4: whenever the splitter returns a boundary list, every segment between
\* consecutive boundaries (the first starting at word 0) has at most
\* max_seq_length - 2 sub-tokens.
C4_SegmentsFit ==
    split.pc = "return" =>
        \A j \in 0..(Len(split.bounds) - 1) :
            SubTokens(text_token_ids, SentStart(split.bounds, j), At(split.bounds, j))
                <= cfg.max_seq_length - 2

\* C4's case: the splitter returned after inserting at least one boundary.
C4_Witness ==
    /\ split.pc = "return"
    /\ Len(split.bounds) > Len(split.bounds0)

\* Every word of the text fits a segment of its own together with the two
\* special tokens, so a boundary list whose segments all fit exists.
EveryWordFits ==
    \A w \in 1..Len(text_token_ids) : Len(text_token_ids[w]) + 2 <= cfg.max_seq_length

\* C5: the splitter's loop never raises and never reaches an empty segment:
\* every boundary list it holds cuts the text into non-empty segments.  The
\* claim is stated for every document; it is checked here on the documents
\* that can be split at all (every word fits on its own).
C5_NoEmptySegment ==
    EveryWordFits =>
        /\ split.pc \in {"scan", "return"}
        /\ \A j \in 0..(Len(split.bounds) - 1) : SentStart(split.bounds, j) < At(split.bounds, j)

---------------------------------------------------------------------------
\* _generate_all_entity_spans (data.py:158-168).

\* The loops of data.py:161-164 with the "not in true_spans" test left out.
PossibleSpans_KeepTrue(true_spans, n, cumlength, max_entity_span) ==
    LET RECURSIVE Pairs(_, _)
        Pairs(i, j) ==
            IF i >= n THEN <<>>
            ELSE IF j >= n THEN Pairs(i + 1, i + 2)
            ELSE (IF At(cumlength, j) - At(cumlength, i) <= max_entity_span
                  THEN <<<<i, j>>>> ELSE <<>>) \o Pairs(i, j + 1)
    IN  Pairs(0, 1)

\* data.py:159-164: possible_spans, in the order the two loops append them;
\* n is len(token_ids).
PossibleSpans(true_spans, n, cumlength, max_entity_span) ==
    LET RECURSIVE Pairs(_, _)
        Pairs(i, j) ==
            IF i >= n THEN <<>>
            ELSE IF j >= n THEN Pairs(i + 1, i + 2)
            ELSE (IF /\ ~(\E k \in 1..Len(true_spans) : true_spans[k].key = <<i, j>>)
                     /\ At(cumlength, j) - At(cumlength, i) <= max_entity_span
                  THEN <<<<i, j>>>> ELSE <<>>) \o Pairs(i, j + 1)
    IN  Pairs(0, 1)

\* The slice bound of data.py:168 without the true spans taken off.
PrefixLen_IgnoreTrue(max_entities, n_true) == max_entities

\* data.py:168: the slice bound max_entities - len(true_spans).
PrefixLen(max_entities, n_true) == max_entities - n_true

\* data.py:166-168: what possible_spans[:k] can be after random.shuffle, for
\* 0 <= k: the shuffle leaves any permutation, so the slice is any
\* arrangement of min(k, len) distinct elements of the list.
ShuffledPrefixes(possible_spans, k) ==
    LET m == Len(possible_spans)
        l == IF k < m THEN k ELSE m
    IN  {[x \in 1..l |-> possible_spans[f[x]]] :
            f \in {g \in [1..l -> 1..m] : \A a, b \in 1..l : a # b => g[a] # g[b]}}

\* dict.keys() as a list.
Keys(d) == [k \in 1..Len(d) |-> d[k].key]

\* data.py:168: the returned list for one outcome of the shuffle.
generate_all_entity_spans(prefix, true_spans) == prefix \o Keys(true_spans)

---------------------------------------------------------------------------
\* daluke.data.Words.build and Entities.build.  daluke/data.py is not among
\* the source files: both are written from the specification's tensor
\* builder (section 4.4) and from test_words and test_entities.

\* Words.build(ids, max_len, sep_id, cls_id, pad_id) for len(ids) + 2 <= max_len.
WordsBuild(ids, max_len, sep, cls, pad) ==
    LET N == Len(ids)
    IN  [ids |-> [p \in 1..max_len |->
                    IF p = 1 THEN cls
                    ELSE IF p <= N + 1 THEN ids[p - 1]
                    ELSE IF p = N + 2 THEN sep
                    ELSE pad],
         segments |-> [p \in 1..max_len |-> 0],
         attention_mask |-> [p \in 1..max_len |-> IF p <= N + 2 THEN 1 ELSE 0]]

\* Entities.build accepts its arguments: no more spans than slots, no span
\* longer than a row of the position matrix.
EntitiesFit(ids, spans, max_entities, max_entity_span) ==
    /\ Len(ids) <= max_entities
    /\ Len(spans) <= max_entities
    /\ \A r \in 1..Len(spans) : spans[r][2] - spans[r][1] <= max_entity_span

\* Entities.build(ids, spans, max_entities, max_entity_span) when EntitiesFit.
EntitiesBuild(ids, spans, max_entities, max_entity_span) ==
    LET N == Len(ids)
    IN  [ids |-> [r \in 1..max_entities |-> IF r <= N THEN ids[r] ELSE 0],
         segments |-> [r \in 1..max_entities |-> 0],
         attention_mask |-> [r \in 1..max_entities |-> IF r <= N THEN 1 ELSE 0],
         pos |-> [r \in 1..max_entities |-> [c \in 1..max_entity_span |->
                    IF r <= Len(spans) /\ c <= spans[r][2] - spans[r][1]
                    THEN spans[r][1] + c
                    ELSE -1]]]

---------------------------------------------------------------------------
\* _build_examples (data.py:98-149) on one text.

\* get_special_ids(self.tokenizer) and entity_vocab["[UNK]"]["id"]: values of
\* the tokenizer and the vocabulary, chosen distinct from each other and
\* from every sub-token id of TokenIds.
sep_id == 3
cls_id == 2
pad_id == 0
unk_id == 1

\* all_labels (data.py:93-96) and label_to_idx (data.py:79), 0-based.
all_labels == <<null_label[1]>> \o labels

label_to_idx(label) == (CHOOSE k \in 1..Len(all_labels) : all_labels[k] = label) - 1

\* data.py:111-112: the dict comprehension over the word spans.
RECURSIVE TrueEntitySpansFrom(_, _, _)
TrueEntitySpansFrom(word_spans, cumlength, k) ==
    IF k = 0 THEN <<>>
    ELSE LET entstart == word_spans[k].key[1]
             entend == word_spans[k].key[2]
         IN  DictSet(TrueEntitySpansFrom(word_spans, cumlength, k - 1),
                     <<At(cumlength, entstart) - 1, At(cumlength, entend - 1)>>,
                     word_spans[k].typ)

TrueEntitySpans(word_spans, cumlength) == TrueEntitySpansFrom(word_spans, cumlength, Len(word_spans))

\* data.py:114: all(e-s <= self.max_entity_span for e, s in true_entity_spans);
\* the loop names the first element of a key e and the second s.
SpanLimitHolds(true_entity_spans, max_entity_span) ==
    \A k \in 1..Len(true_entity_spans) :
        LET e == true_entity_spans[k].key[1]
            s == true_entity_spans[k].key[2]
        IN  e - s <= max_entity_span

\* data.py:116
CountLimitHolds(true_entity_spans, max_entities) == Len(true_entity_spans) < max_entities

\* dict.get(span, default)
DictGet(d, key, default) ==
    IF \E k \in 1..Len(d) : d[k].key = key
    THEN (CHOOSE it \in DictItems(d) : it.key = key).typ
    ELSE default

\* data.py:121 with the last id left out.
EntityIds_DropLast(all_entity_spans) == [k \in 1..(Len(all_entity_spans) - 1) |-> unk_id]

\* data.py:121
EntityIds(all_entity_spans) == [k \in 1..Len(all_entity_spans) |-> unk_id]

\* data.py:122 with every span looked up as (end, start).
EntityLabels_SwappedKey(all_entity_spans, true_entity_spans) ==
    [k \in 1..Len(all_entity_spans) |->
        label_to_idx(DictGet(true_entity_spans,
                             <<all_entity_spans[k][2], all_entity_spans[k][1]>>, null_label[1]))]

\* data.py:122
EntityLabels(all_entity_spans, true_entity_spans) ==
    [k \in 1..Len(all_entity_spans) |->
        label_to_idx(DictGet(true_entity_spans, all_entity_spans[k], null_label[1]))]

\* chain(*...) that keeps only the first sub-token of every word.
Chain_FirstSubToken(tok) == [w \in 1..Len(tok) |-> tok[w][1]]

\* data.py:132: list(chain(*text_token_ids[start: end]))
RECURSIVE Chain(_)
Chain(tok) == IF tok = <<>> THEN <<>> ELSE Head(tok) \o Chain(Tail(tok))

\* The words [start, end) of the j-th segment (data.py:105-106).
SegStart(st) == SentStart(st.bounds, st.j)
SegEnd(st) == At(st.bounds, st.j)

\* data.py:100-101: the text is tokenized, nothing else is computed yet.
ExInit(b) ==
    [pc |-> "split", bounds |-> b, j |-> 0, cumlength |-> <<>>, true_entity_spans |-> <<>>,
     all_entity_spans |-> <<>>, entity_labels |-> <<>>, entities |-> <<>>, words |-> <<>>,
     examples |-> 0]

\* data.py:103
ExSplitStep(st, tok, max_seq_length) ==
    LET r == add_extra_sentence_boundaries(st.bounds, tok, max_seq_length)
    IN  IF r.pc = "IndexError" THEN [st EXCEPT !.pc = "IndexError", !.bounds = r.bounds]
        ELSE [st EXCEPT !.pc = "segment", !.bounds = r.bounds, !.j = 0]

\* data.py:105-117 for segment j: the gold spans and the two assertions.
ExTrueSpansStep(st, ann, tok, c) ==
    LET start == SegStart(st)
        end == SegEnd(st)
        r == segment_entities(Slice(ann, start, end))
        cumlength == cumsum(Lens(Slice(tok, start, end)))
        true_entity_spans == TrueEntitySpans(r.spans, cumlength)
    IN  IF r.pc # "return" THEN [st EXCEPT !.pc = r.pc]
        ELSE IF ~SpanLimitHolds(true_entity_spans, c.max_entity_span)
        THEN [st EXCEPT !.pc = "assert_span", !.cumlength = cumlength,
                        !.true_entity_spans = true_entity_spans]
        ELSE IF ~CountLimitHolds(true_entity_spans, c.max_entities)
        THEN [st EXCEPT !.pc = "assert_count", !.cumlength = cumlength,
                        !.true_entity_spans = true_entity_spans]
        ELSE [st EXCEPT !.pc = "generate", !.cumlength = cumlength,
                        !.true_entity_spans = true_entity_spans]

\* data.py:119-122 for one outcome of the shuffle.
ExGenerateStep(st, prefix) ==
    LET all_entity_spans == generate_all_entity_spans(prefix, st.true_entity_spans)
    IN  [st EXCEPT !.pc = "build",
                   !.all_entity_spans = all_entity_spans,
                   !.entity_labels = EntityLabels(all_entity_spans, st.true_entity_spans)]

\* data.py:124-148: the tensors are built and the example is appended.
ExBuildStep(st, tok, c) ==
    LET entity_ids == EntityIds(st.all_entity_spans)
        ids == Chain(Slice(tok, SegStart(st), SegEnd(st)))
    IN  IF ~EntitiesFit(entity_ids, st.all_entity_spans, c.max_entities, c.max_entity_span)
        THEN [st EXCEPT !.pc = "entities_error"]
        ELSE [st EXCEPT
                !.pc = "built",
                !.entities = EntitiesBuild(entity_ids, st.all_entity_spans, c.max_entities, c.max_entity_span),
                !.words = WordsBuild(ids, c.max_seq_length, sep_id, cls_id, pad_id),
                !.examples = @ + 1]

\* The configurations the example builder is run with.
Configs ==
    [max_seq_length : {4, 8}, max_entities : {2, 3}, max_entity_span : {1, 2}]

\* DaNE.build (data.py:256-259): every sentence is a text of its own, with
\* the single bound len(s).
Init ==
    /\ text_token_ids \in Texts(MaxExWords, MaxExSubTokens)
    /\ annotation \in [1..Len(text_token_ids) -> Tags]
    /\ cfg \in Configs
    /\ seg = SegInit
    /\ split = IdleSplit
    /\ ex = ExInit(<<Len(text_token_ids)>>)

ExSplit ==
    /\ ex.pc = "split"
    /\ ex' = ExSplitStep(ex, text_token_ids, cfg.max_seq_length)
    /\ UNCHANGED <<annotation, text_token_ids, cfg, seg, split>>

ExTrueSpans ==
    /\ ex.pc = "segment"
    /\ ex.j < Len(ex.bounds)
    /\ ex' = ExTrueSpansStep(ex, annotation, text_token_ids, cfg)
    /\ UNCHANGED <<annotation, text_token_ids, cfg, seg, split>>

ExGenerate ==
    /\ ex.pc = "generate"
    /\ \E prefix \in ShuffledPrefixes(
            PossibleSpans(ex.true_entity_spans, SegEnd(ex) - SegStart(ex), ex.cumlength, cfg.max_entity_span),
            PrefixLen(cfg.max_entities, Len(ex.true_entity_spans))) :
         ex' = ExGenerateStep(ex, prefix)
    /\ UNCHANGED <<annotation, text_token_ids, cfg, seg, split>>

ExBuild ==
    /\ ex.pc = "build"
    /\ ex' = ExBuildStep(ex, text_token_ids, cfg)
    /\ UNCHANGED <<annotation, text_token_ids, cfg, seg, split>>

\* data.py:105: the next segment of the text.
ExNextSegment ==
    /\ ex.pc = "built"
    /\ ex' = [ex EXCEPT !.pc = "segment", !.j = @ + 1]
    /\ UNCHANGED <<annotation, text_token_ids, cfg, seg, split>>

\* data.py:149
ExReturn ==
    /\ ex.pc = "segment"
    /\ ex.j = Len(ex.bounds)
    /\ ex' = [ex EXCEPT !.pc = "return"]
    /\ UNCHANGED <<annotation, text_token_ids, cfg, seg, split>>

Next == ExSplit \/ ExTrueSpans \/ ExGenerate \/ ExBuild \/ ExNextSegment \/ ExReturn

Spec == Init /\ [][Next]_vars

---------------------------------------------------------------------------
\* Claims about the span enumerator.

\* The elements of a list.
Range(s) == {s[k] : k \in 1..Len(s)}

Min(a, b) == IF a < b THEN a ELSE b

\* The gold spans of the segment at hand, as the enumerator receives them.
Gold == Range(Keys(ex.true_entity_spans))

\* The negatives available to the enumerator for the segment at hand: the
\* pairs its loops visit that are no gold span and pass the max_entity_span
\* filter.
NegativesAvailable ==
    LET n == SegEnd(ex) - SegStart(ex)
    IN  {p \in (0..(n - 1)) \X (0..(n - 1)) :
            /\ p[1] < p[2]
            /\ p \notin Gold
            /\ At(ex.cumlength, p[2]) - At(ex.cumlength, p[1]) <= cfg.max_entity_span}

\* C1: for every segment with fewer gold spans than max_entities and every
\* outcome of the shuffle, the list _generate_all_entity_spans returns
\* contains every gold span of the segment and has at most max_entities
\* elements.
C1_GoldKeptWithinLimit ==
    (ex.pc = "build" /\ Cardinality(Gold) < cfg.max_entities) =>
        /\ Gold \subseteq Range(ex.all_entity_spans)
        /\ Len(ex.all_entity_spans) <= cfg.max_entities

\* C1's case: a segment with a gold span and more negatives than free slots,
\* so the shuffled negatives were truncated.
C1_Witness ==
    /\ ex.pc = "build"
    /\ Gold # {}
    /\ Cardinality(NegativesAvailable) > cfg.max_entities - Cardinality(Gold)
    /\ Len(ex.all_entity_spans) = cfg.max_entities

\* C2: for every segment with fewer gold spans than max_entities and every
\* outcome of the shuffle, the returned list holds no span twice and has
\* exactly min(max_entities, |gold| + |negatives available|) elements.
C2_DuplicateFreeExactSize ==
    (ex.pc = "build" /\ Cardinality(Gold) < cfg.max_entities) =>
        /\ \A a, b \in 1..Len(ex.all_entity_spans) :
               a # b => ex.all_entity_spans[a] # ex.all_entity_spans[b]
        /\ Len(ex.all_entity_spans) =
               Min(cfg.max_entities, Cardinality(Gold) + Cardinality(NegativesAvailable))

\* C2's case: gold spans and negatives together stay below max_entities, so
\* nothing was truncated, and a gold span coincides with a pair of word
\* indices the loops visit.
C2_Witness ==
    /\ ex.pc = "build"
    /\ Gold # {}
    /\ NegativesAvailable # {}
    /\ Cardinality(Gold) + Cardinality(NegativesAvailable) < cfg.max_entities
    /\ \E g \in Gold : g[1] < g[2] /\ g[2] < SegEnd(ex) - SegStart(ex)

---------------------------------------------------------------------------
\* Claims about the assertions of _build_examples.

\* C6: construction of a segment's example fails at the span-limit assertion
\* whenever one of its gold spans has a sub-token length (end - start)
\* greater than max_entity_span: no segment with such a gold span gets past
\* the assertions of data.py:114-117.
C6_LongGoldSpanFails ==
    ex.pc \in {"generate", "build", "built"} =>
        \A g \in Gold : g[2] - g[1] <= cfg.max_entity_span

---------------------------------------------------------------------------
\* Claims about the tensor layout.

\* The sub-token ids of the segment at hand, as a set.
SegmentIds ==
    UNION {Range(text_token_ids[w]) : w \in (SegStart(ex) + 1)..SegEnd(ex)}

\* test_words (test_data.py:7-14), whose special ids are 3, 3 and 0.
TestWords ==
    LET words == WordsBuild(<<22, 48, 2>>, 10, 3, 3, 0)
    IN  /\ words.ids = <<3, 22, 48, 2, 3, 0, 0, 0, 0, 0>>
        /\ words.segments = <<0, 0, 0, 0, 0, 0, 0, 0, 0, 0>>
        /\ words.attention_mask = <<1, 1, 1, 1, 1, 0, 0, 0, 0, 0>>

\* C9: the words of an example built from a segment of n sub-tokens
\* (n <= max_seq_length - 2) have ids of length max_seq_length laid out as
\* start sentinel, the n sub-tokens in order, end sentinel, padding; the
\* attention mask is 1 on exactly the first n + 2 positions; the segment ids
\* are all zero.  (TokenIds numbers the sub-tokens of a text in increasing
\* order, so "in order" is "increasing".)
C9_WordsLayout ==
    /\ TestWords
    /\ ex.pc = "built" =>
        LET n == SubTokens(text_token_ids, SegStart(ex), SegEnd(ex))
            max_len == cfg.max_seq_length
            w == ex.words
        IN  /\ n <= max_len - 2
            /\ DOMAIN w.ids = 1..max_len
            /\ DOMAIN w.attention_mask = 1..max_len
            /\ DOMAIN w.segments = 1..max_len
            /\ w.ids[1] = cls_id
            /\ {w.ids[p] : p \in 2..(n + 1)} = SegmentIds
            /\ \A p \in 2..n : w.ids[p] < w.ids[p + 1]
            /\ w.ids[n + 2] = sep_id
            /\ \A p \in (n + 3)..max_len : w.ids[p] = pad_id
            /\ \A p \in 1..max_len : w.attention_mask[p] = (IF p <= n + 2 THEN 1 ELSE 0)
            /\ \A p \in 1..max_len : w.segments[p] = 0

\* C9's case: a segment with a word of several sub-tokens was built and its
\* ids end in padding.
C9_Witness ==
    /\ ex.pc = "built"
    /\ \E w \in (SegStart(ex) + 1)..SegEnd(ex) : Len(text_token_ids[w]) >= 2
    /\ SegEnd(ex) - SegStart(ex) >= 2
    /\ SubTokens(text_token_ids, SegStart(ex), SegEnd(ex)) + 2 < cfg.max_seq_length
    /\ ex.words.ids[cfg.max_seq_length] = pad_id

\* test_entities (test_data.py:16-33), with its empty span (3, 3).
TestEntities ==
    LET ents == EntitiesBuild(<<69, 420, 42060>>, <<<<0, 2>>, <<2, 3>>, <<3, 3>>>>, 5, 4)
    IN  /\ ents.ids = <<69, 420, 42060, 0, 0>>
        /\ ents.segments = <<0, 0, 0, 0, 0>>
        /\ ents.attention_mask = <<1, 1, 1, 0, 0>>
        /\ ents.pos = << <<1, 2, -1, -1>>, <<3, -1, -1, -1>>, <<-1, -1, -1, -1>>,
                         <<-1, -1, -1, -1>>, <<-1, -1, -1, -1>> >>

---------------------------------------------------------------------------
\* Claims about the labels.

\* The index of a label in (null label, LOC, PER, ORG, MISC), from 0.
LabelIndex(label) ==
    CASE label = "O" -> 0
      [] label = "LOC" -> 1
      [] label = "PER" -> 2
      [] label = "ORG" -> 3
      [] label = "MISC" -> 4

\* The gold word spans of the segment at hand, as _segment_entities returns
\* them.
GoldWordSpans ==
    segment_entities(Slice(annotation, SegStart(ex), SegEnd(ex))).spans

\* C11: in every example the label list is aligned one-to-one with the
\* candidate span list: a candidate that is a gold span of the segment (a key
\* of true_entity_spans) carries the index of its gold entity type, every
\* other candidate the index of the null label; hence the number of non-null
\* labels is the number of gold spans of the segment.
C11_LabelsAligned ==
    ex.pc \in {"build", "built"} =>
        /\ Len(ex.entity_labels) = Len(ex.all_entity_spans)
        /\ \A k \in 1..Len(ex.all_entity_spans) :
               LET span == ex.all_entity_spans[k]
               IN  ex.entity_labels[k] =
                       IF span \in Gold
                       THEN LabelIndex((CHOOSE it \in DictItems(ex.true_entity_spans) : it.key = span).typ)
                       ELSE LabelIndex("O")
        /\ Cardinality({k \in 1..Len(ex.entity_labels) : ex.entity_labels[k] # LabelIndex("O")})
               = Len(GoldWordSpans)

\* C11's case: the candidates of a segment with gold spans of two types and
\* a negative have been labelled.
C11_Witness ==
    /\ ex.pc = "build"
    /\ {it.typ : it \in DictItems(ex.true_entity_spans)} = Types
    /\ \E k \in 1..Len(ex.all_entity_spans) : ex.all_entity_spans[k] \notin Gold
    /\ \E k \in 1..Len(ex.entity_labels) : ex.entity_labels[k] = 2

---------------------------------------------------------------------------
\* More claims about the splitter.

\* C12: sentence splitting is idempotent: whenever the splitter has returned
\* a boundary list B, a second call on B (same text, same max_seq_length)
\* returns B unchanged, with no boundary inserted.
C12_SplitIdempotent ==
    split.pc = "return" =>
        LET again == add_extra_sentence_boundaries(split.bounds, text_token_ids, cfg.max_seq_length)
        IN  /\ again.pc = "return"
            /\ again.bounds = split.bounds
            /\ again.bounds0 = split.bounds

\* C12's case: the first call inserted at least two boundaries before it
\* returned the list the second call is run on.
C12_Witness ==
    /\ split.pc = "return"
    /\ Len(split.bounds) >= Len(split.bounds0) + 2
    /\ add_extra_sentence_boundaries(split.bounds, text_token_ids, cfg.max_seq_length).pc = "return"

\* Segment j of the boundary list b is over the limit once the two special
\* tokens are added.
OverLong(b, j) ==
    SubTokens(text_token_ids, SentStart(b, j), At(b, j)) + 2 > cfg.max_seq_length

\* The number of leading words of the segment starting at word s whose
\* cumulative sub-token length, plus the 2 special tokens, is still under
\* max_seq_length: where the cumulative length last stayed under the limit.
LastUnder(s, e) ==
    LET under == {m \in 0..(e - s) :
                     m = 0 \/ SubTokens(text_token_ids, s, s + m) + 2 < cfg.max_seq_length}
    IN  CHOOSE m \in under : \A x \in under : x <= m

\* The scenario of the specification: sub-token counts [1,1,5,1], the single
\* bound [4], max_seq_length = 5.
Scenario ==
    /\ Lens(text_token_ids) = <<1, 1, 5, 1>>
    /\ split.bounds0 = <<4>>
    /\ cfg.max_seq_length = 5

C13_Insertion ==
    (split.pc = "scan" /\ split'.pc = "scan" /\ split' # split) =>
        LET b == split.bounds
            i == CHOOSE j \in 0..(Len(b) - 1) :
                     OverLong(b, j) /\ \A x \in 0..(j - 1) : ~OverLong(b, x)
            s == SentStart(b, i)
        IN  split'.bounds = SubSeq(b, 1, i) \o <<s + LastUnder(s, At(b, i))>> \o SubSeq(b, i + 1, Len(b))

\* The scenario, scan by scan.
C13_ScenarioSteps ==
    Scenario =>
        /\ (split.pc = "scan" /\ split.bounds = <<4>>) =>
               (split'.pc = "scan" /\ split'.bounds = <<2, 4>>)
        /\ (split.pc = "scan" /\ split.bounds = <<2, 4>>) =>
               (split'.pc = "scan" /\ split'.bounds = <<2, 2, 4>>)
        /\ split'.pc # "scan" => (split'.pc = "IndexError" /\ split'.bounds = <<2, 2, 4>>)

---------------------------------------------------------------------------
\* Claims about the coordinates of the spans.

\* The number of sub-tokens of the first m words of the segment at hand.
SubTokensBefore(m) == SubTokens(text_token_ids, SegStart(ex), SegStart(ex) + m)

\* C14: every gold word span (ws, we) of a segment is converted to the
\* sub-token span (a, b), a the number of sub-tokens of the segment's words
\* before ws and b the number of sub-tokens of its words up to and including
\* we-1, so that b - a is the sub-token count of the words ws..we-1, for
\* every per-word sub-token count.
C14_SubTokenCoordinates ==
    ex.pc \in {"generate", "build", "built"} =>
        /\ Len(ex.true_entity_spans) = Len(GoldWordSpans)
        /\ \A k \in 1..Len(GoldWordSpans) :
               LET ws == GoldWordSpans[k].key[1]
                   we == GoldWordSpans[k].key[2]
               IN  /\ ex.true_entity_spans[k].key = <<SubTokensBefore(ws), SubTokensBefore(we)>>
                   /\ ex.true_entity_spans[k].key[2] - ex.true_entity_spans[k].key[1]
                          = SubTokens(text_token_ids, SegStart(ex) + ws, SegStart(ex) + we)

\* Every word of the segment at hand has exactly one sub-token, so word
\* indices and sub-token offsets coincide.
OneSubTokenWords ==
    \A w \in (SegStart(ex) + 1)..SegEnd(ex) : Len(text_token_ids[w]) = 1

\* The pairs (a, b), a < b, of the sub-token start offset a of a word of the
\* segment at hand and the sub-token end offset b of a word of it.
WordAlignedPairs ==
    LET n == SegEnd(ex) - SegStart(ex)
    IN  {<<SubTokensBefore(i), SubTokensBefore(j + 1)>> : i \in 0..(n - 1), j \in 0..(n - 1)}
            \cap {p \in (0..SubTokensBefore(n)) \X (0..SubTokensBefore(n)) : p[1] < p[2]}

\* C15: before shuffling, the pool of negative candidates of a segment is
\* exactly the set of pairs (a, b), a < b, of a word's sub-token start offset
\* and a word's sub-token end offset (spans ending at the last word
\* included), minus the gold spans and minus the pairs with
\* b - a > max_entity_span.  The claim is stated for every segment; it is
\* checked here on the segments whose words have one sub-token each, where
\* the gold spans of data.py:111 are in the right coordinates.
C15_NegativePool ==
    (ex.pc = "generate" /\ OneSubTokenWords) =>
        Range(PossibleSpans(ex.true_entity_spans, SegEnd(ex) - SegStart(ex),
                            ex.cumlength, cfg.max_entity_span))
            = {p \in WordAlignedPairs : p \notin Gold /\ p[2] - p[1] <= cfg.max_entity_span}

\* The condition of the assertion the scan meets at the word it is about to
\* read (data.py:180, 186, 194), TRUE when that word meets none.
AssertionAhead ==
    LET i == seg.i
        a == At(annotation, i)
    IN  IF a = null_label THEN seg.start = {}
        ELSE IF MightEnd(annotation, i, a[2])
             THEN seg.ent_type = {} \/ seg.ent_type = {a[2]}
        ELSE IF MightBegin(annotation, i, a[1], a[2]) THEN seg.start = {}
        ELSE TRUE

\* C16: on every sequence of tags O, B-T, I-T the scan of _segment_entities
\* never stands before a word that violates one of its three assertions (at
\* a null tag no span is open, at an opening word no span is open, at a
\* closing word the tag's type is the open span's type), so the scan only
\* ever scans or returns its mapping.
C16_AssertionsNeverFail ==
    /\ seg.pc \in {"scan", "return"}
    /\ (seg.pc = "scan" /\ seg.i < Len(annotation)) => AssertionAhead

\* An I- tag at the sentence start, after O and after another type, scanned
\* to the return with one span per I- tag.
C16_Witness ==
    /\ annotation = <<<<"I", "PER">>, <<"O">>, <<"I", "LOC">>, <<"I", "PER">>>>
    /\ seg.pc = "return"
    /\ Len(seg.spans) = 3

====
